---- MODULE Spec2Model ----
(***************************************************************************)
(* A model of flight_alert_bot.py: the price store (PriceTracker), the     *)
(* search boundary (AmadeusAPI.search_flights), the classification loop    *)
(* (FlightAlertBot.check_all_routes), the digest gate                      *)
(* (should_send_daily_digest) and the polling loop (run).                  *)
(*                                                                         *)
(* Prices are whole dollars.  An average is kept as the exact fraction     *)
(* [num, den] that sum(prices) / len(prices) denotes, and every comparison *)
(* of ratios is done on the fractions; binary floating point rounding is   *)
(* not modelled.  Time is the wall clock in minutes since day 0, 00:00.    *)
(* A date is a day number; a fare's departure date is the date searched.   *)
(***************************************************************************)
EXTENDS Integers, Sequences, FiniteSets, TLC

VARIABLES
    price_history,      \* PriceTracker.price_history: route_key -> list of observations
    file,               \* price_history.json on disk
    recorded,           \* history: per key, what was hydrated at startup then every add_price since
    clock,              \* logical time of datetime.now().isoformat(): one tick per recording instant
    save_failures,      \* how many durable writes have failed so far
    restarts,           \* how many times the process has been started again
    now,                \* wall clock, minutes since day 0 00:00
    last_digest_date,   \* FlightAlertBot.last_digest_date: None or Some(day)
    pc,                 \* where run() stands
    route_idx,          \* check_all_routes: index of the next route of the catalog
    best_flight,        \* check_all_routes: the fare retained for the route just processed
    avg_price,          \* check_all_routes: the baseline read for that fare
    outcome,            \* history: what classification emitted for the route just processed
    deals_by_region,    \* check_all_routes: region -> list of deals of this cycle
    price_drop_alerts,  \* check_all_routes: list of DROP alerts of this cycle
    alert_idx,          \* run: index of the next DROP alert to send
    sent,               \* history: what this cycle handed to TelegramBot.send_message, in order
    gate,               \* run: what should_send_daily_digest returned in this cycle
    opens,              \* history: day -> how often the gate opened on it in this process
    digest_sends,       \* history: day -> digest-shaped texts handed to send_message on it in this process
    seen,               \* history: the classification outcomes produced so far
    pending,            \* history: deals classified DIGEST since the cycle of the last digest-shaped send
    searched,           \* history: the responses the searches of the route just processed got, where kept
    digest_failed,      \* history: days on which send_message returned False for the digest, where kept
    exception           \* the exception that ended the last operation or left run(), None when there is none

vars == <<price_history, file, recorded, clock, save_failures, restarts, now,
          last_digest_date, pc, route_idx, best_flight, avg_price, outcome,
          deals_by_region, price_drop_alerts, alert_idx, sent, gate, opens,
          digest_sends, seen, pending, searched, digest_failed, exception>>

storeVars == <<price_history, file, recorded>>
cycleVars == <<route_idx, best_flight, avg_price, outcome, deals_by_region,
               price_drop_alerts, alert_idx, sent, gate>>

----------------------------------------------------------------------------
(* Bounds of the exploration *)

\* recordings explored by the store specification
MaxAdds == 32
\* recordings at the start during which the store specification varies the
\* key, fails writes and restarts; it fails writes and restarts again once a
\* key can be full
MixedAdds == 3
\* polling cycles explored by the program specification
MaxCycles == 3
\* durable writes that may fail
MaxSaveFailures == 1
\* process restarts
MaxRestarts == 1
\* extra hours a wait may last beyond the 2 hours slept (a slow cycle, a
\* suspended host): with 20, a cycle at 10:00 is followed by one at 08:00
LongDelayHours == 20

----------------------------------------------------------------------------
(* Python values *)

None == <<>>
Some(x) == <<x>>
Val(o) == o[1]

\* d[k] = v on a dict
Put(d, k, v) == [x \in DOMAIN d \cup {k} |-> IF x = k THEN v ELSE d[x]]

\* exact fractions with positive denominator
Frac(n, d) == [num |-> n, den |-> d]
FracLess(a, b) == a.num * b.den < b.num * a.den
FracGeq(a, b) == a.num * b.den >= b.num * a.den
FracInt(n) == Frac(n, 1)

RECURSIVE SumPrices(_)
\* sum(prices) over [obs['price'] for obs in ...]
SumPrices(obs) ==
    IF obs = <<>> THEN 0 ELSE obs[1].price + SumPrices(Tail(obs))

----------------------------------------------------------------------------
(* PriceTracker *)

\* observations kept per route key
Window == 30
\* observations needed before an average exists
MinObservations == 3

\* f"{origin}-{destination}-{date}"
get_route_key(origin, destination, date) ==
    origin \o "-" \o destination \o "-" \o ToString(date)

\* a file holding nothing
MissingFile == [state |-> "missing", data |-> <<>>]

\* price_history after json.load returned a JSON array: written as a
\* function with the one key "[]", which no route key equals
JsonArray == [k \in {"[]"} |-> <<>>]
IsArray(store) == "[]" \in DOMAIN store

\* __init__ then load_history: an absent file leaves {}; a file that cannot
\* be opened or does not parse raises and the handler sets {}; a parsed
\* object is taken as it is; so is a parsed array, since len() accepts it; a
\* parsed null, number or boolean makes len() raise and the handler sets {}
load_history(f) ==
    CASE f.state = "ok"    -> f.data
      [] f.state = "array" -> JsonArray
      [] OTHER             -> <<>>

\* what a write attempt leaves on disk: the dumped store, the file as it was
\* when open() fails, or a truncated file when the dump breaks off
SaveOutcomes == {"ok", "denied", "torn"}

save_history(f, store, how) ==
    CASE how = "ok"     -> [state |-> "ok", data |-> store]
      [] how = "denied" -> f
      [] how = "torn"   -> [state |-> "corrupt", data |-> <<>>]

\* s[:n], what a cut at the wrong end would keep
FirstN(s, n) ==
    IF Len(s) <= n THEN s ELSE SubSeq(s, 1, n)

\* s[-n:]
LastN(s, n) ==
    IF Len(s) <= n THEN s ELSE SubSeq(s, Len(s) - n + 1, Len(s))

\* the in-memory part of add_price
add_price(store, key, price, timestamp) ==
    LET had == IF key \in DOMAIN store THEN store[key] ELSE <<>>
        obs == [price |-> price, timestamp |-> timestamp]
    IN  Put(store, key, LastN(Append(had, obs), Window))

\* an average that needs only two observations
get_average_price_min2(store, key) ==
    IF key \notin DOMAIN store \/ Len(store[key]) < 2
    THEN None
    ELSE Some(Frac(SumPrices(store[key]), Len(store[key])))

\* an average divided by the window size instead of the number of prices
get_average_price_window(store, key) ==
    IF key \notin DOMAIN store \/ Len(store[key]) < MinObservations
    THEN None
    ELSE Some(Frac(SumPrices(store[key]), Window))

get_average_price(store, key) ==
    IF key \notin DOMAIN store \/ Len(store[key]) < MinObservations
    THEN None
    ELSE Some(Frac(SumPrices(store[key]), Len(store[key])))

\* an add_price that undoes the append when the durable write fails
RecordRollback(key, price, how) ==
    /\ price_history' = IF how = "ok"
                        THEN add_price(price_history, key, price, clock)
                        ELSE price_history
    /\ file' = save_history(file, price_history', how)
    /\ recorded' = Put(recorded, key,
                       Append(IF key \in DOMAIN recorded THEN recorded[key] ELSE <<>>,
                              [price |-> price, timestamp |-> clock]))
    /\ save_failures' = IF how = "ok" THEN save_failures ELSE save_failures + 1

\* a baseline read before the fare is recorded
baseline_before_add(store, key, price, timestamp) ==
    get_average_price(store, key)

\* the baseline check_all_routes reads for a fare: add_price first, then
\* get_average_price on the store that holds the fare
baseline_after_add(store, key, price, timestamp) ==
    get_average_price(add_price(store, key, price, timestamp), key)

\* add_price as a step: the append and cut, then save_history, whose failure
\* is swallowed
Record(key, price, how) ==
    /\ price_history' = add_price(price_history, key, price, clock)
    /\ file' = save_history(file, price_history', how)
    /\ recorded' = Put(recorded, key,
                       Append(IF key \in DOMAIN recorded THEN recorded[key] ELSE <<>>,
                              [price |-> price, timestamp |-> clock]))
    /\ save_failures' = IF how = "ok" THEN save_failures ELSE save_failures + 1

----------------------------------------------------------------------------
(* The route catalog and the search horizon *)

\* self.routes, region by region in the order of the dict: one route of the
\* first region and one of the first region with the lower ceiling
routes ==
    << [region |-> "US & Canada", origins |-> <<"AEP", "EZE">>,
        destination |-> "JFK", city |-> "New York", max_price |-> 700],
       [region |-> "Brazil", origins |-> <<"AEP", "EZE">>,
        destination |-> "GRU", city |-> "Sao Paulo", max_price |-> 150] >>

\* self.routes.keys(), in order
regions == <<"US & Canada", "Brazil">>

\* for days_ahead in [30, 60, 90]
days_ahead == <<30, 60, 90>>

Today(t) == t \div (24 * 60)
Hour(t) == (t \div 60) % 24

\* search_dates of a cycle that starts on day `today`
search_dates(today) == [i \in 1..Len(days_ahead) |-> today + days_ahead[i]]

\* the searches of one route in the order of the two nested loops:
\* origin-major, date-minor
Calls(route, dates) ==
    [i \in 1..(Len(route.origins) * Len(dates)) |->
        [origin |-> route.origins[((i - 1) \div Len(dates)) + 1],
         departure_date |-> dates[((i - 1) % Len(dates)) + 1]]]

----------------------------------------------------------------------------
(* AmadeusAPI.search_flights *)

RECURSIVE CheapestUnfiltered(_, _, _, _, _, _)
\* a scan that does not skip the offers above max_price
CheapestUnfiltered(offers, origin, destination, departure_date, max_price, cheapest) ==
    IF offers = <<>> THEN cheapest
    ELSE LET price == offers[1]
             kept == IF cheapest = None \/ price < Val(cheapest).price
                     THEN Some([price |-> price, origin |-> origin,
                                destination |-> destination,
                                departure |-> departure_date])
                     ELSE cheapest
         IN CheapestUnfiltered(Tail(offers), origin, destination,
                               departure_date, max_price, kept)

RECURSIVE Cheapest(_, _, _, _, _, _)
\* the loop over data['data']: offers above max_price are skipped, a
\* strictly lower price replaces the offer kept
Cheapest(offers, origin, destination, departure_date, max_price, cheapest) ==
    IF offers = <<>> THEN cheapest
    ELSE LET price == offers[1]
             kept == IF price > max_price THEN cheapest
                     ELSE IF cheapest = None \/ price < Val(cheapest).price
                          THEN Some([price |-> price, origin |-> origin,
                                     destination |-> destination,
                                     departure |-> departure_date])
                          ELSE cheapest
         IN Cheapest(Tail(offers), origin, destination, departure_date,
                     max_price, kept)

\* what the provider does with one search: no token, a transport or parse
\* failure, or a response with its offers' prices (none: no 'data')
AuthError == [kind |-> "auth_error", offers |-> <<>>]
SearchError == [kind |-> "error", offers |-> <<>>]
Offers(prices) == [kind |-> "ok", offers |-> prices]

\* a search that hands back the cheapest offer whatever the ceiling
search_flights_no_ceiling(resp, origin, destination, departure_date, max_price) ==
    IF resp.kind # "ok" THEN None
    ELSE IF Len(resp.offers) = 0 THEN None
    ELSE CheapestUnfiltered(resp.offers, origin, destination, departure_date,
                            max_price, None)

search_flights(resp, origin, destination, departure_date, max_price) ==
    IF resp.kind # "ok" THEN None
    ELSE IF Len(resp.offers) = 0 THEN None
    ELSE Cheapest(resp.offers, origin, destination, departure_date,
                  max_price, None)

----------------------------------------------------------------------------
(* FlightAlertBot.check_all_routes, one route *)

RECURSIVE BestOfUntilFailure(_, _, _, _)
\* search loops that give up the route at the first search that fails
BestOfUntilFailure(route, calls, resps, best) ==
    IF calls = <<>> \/ resps[1].kind # "ok" THEN best
    ELSE LET flight == search_flights(resps[1], calls[1].origin,
                                      route.destination,
                                      calls[1].departure_date, route.max_price)
             kept == IF flight # None
                        /\ (best = None \/ Val(flight).price < Val(best).price)
                     THEN flight ELSE best
         IN BestOfUntilFailure(route, Tail(calls), Tail(resps), kept)

RECURSIVE BestOfLastSeen(_, _, _, _)
\* search loops in which a fare as cheap as the best one replaces it
BestOfLastSeen(route, calls, resps, best) ==
    IF calls = <<>> THEN best
    ELSE LET flight == search_flights(resps[1], calls[1].origin,
                                      route.destination,
                                      calls[1].departure_date, route.max_price)
             kept == IF flight # None
                        /\ (best = None \/ Val(flight).price <= Val(best).price)
                     THEN flight ELSE best
         IN BestOfLastSeen(route, Tail(calls), Tail(resps), kept)

RECURSIVE BestOf(_, _, _, _)
\* the two nested search loops of one route: a fare replaces the best one
\* only when strictly cheaper
BestOf(route, calls, resps, best) ==
    IF calls = <<>> THEN best
    ELSE LET flight == search_flights(resps[1], calls[1].origin,
                                      route.destination,
                                      calls[1].departure_date, route.max_price)
             kept == IF flight # None
                        /\ (best = None \/ Val(flight).price < Val(best).price)
                     THEN flight ELSE best
         IN BestOf(route, Tail(calls), Tail(resps), kept)

\* the two alert thresholds, 0.20 each
DealThreshold == Frac(20, 100)
DropThreshold == Frac(20, 100)

\* threshold_savings = (route['max_price'] - price) / route['max_price']
threshold_savings(route, price) ==
    Frac(route.max_price - price, route.max_price)

\* a deal test that excludes a saving of exactly 20%
is_deal_strict(route, price) ==
    FracLess(DealThreshold, threshold_savings(route, price))

\* if threshold_savings >= 0.20
is_deal(route, price) ==
    FracGeq(threshold_savings(route, price), DealThreshold)

\* drop_pct = (avg_price - price) / avg_price, for avg_price = a.num / a.den
drop_pct(a, price) ==
    Frac(a.num - price * a.den, a.num)

\* a drop test that excludes a drop of exactly 20%
is_drop_strict(avg, price) ==
    /\ avg # None
    /\ Val(avg).num # 0
    /\ FracLess(FracInt(price), Val(avg))
    /\ FracLess(DropThreshold, drop_pct(Val(avg), price))

\* if avg_price and price < avg_price: ... if drop_pct >= 0.20
is_drop(avg, price) ==
    /\ avg # None
    /\ Val(avg).num # 0
    /\ FracLess(FracInt(price), Val(avg))
    /\ FracGeq(drop_pct(Val(avg), price), DropThreshold)

\* the entry appended to price_drop_alerts: drop_percentage is drop_pct * 100
drop_alert(flight, route, avg) ==
    [flight |-> flight, route |-> route, avg_price |-> avg,
     drop_percentage |-> Frac(drop_pct(avg, flight.price).num * 100,
                              drop_pct(avg, flight.price).den)]

\* the entry appended to deals_by_region[region]
deal(flight, route) == [flight |-> flight, route |-> route]

Outcome(digest, drop) ==
    CASE digest /\ drop   -> "BOTH"
      [] digest /\ ~drop  -> "DIGEST"
      [] ~digest /\ drop  -> "DROP"
      [] OTHER            -> "NONE"

----------------------------------------------------------------------------
(* The digest gate and the digest text *)

\* the hour from which the digest may be sent
DigestHour == 9

\* a gate that opens without remembering the day
should_send_forgetful(t, last) ==
    IF Hour(t) >= DigestHour /\ last # Some(Today(t))
    THEN [result |-> TRUE, last_digest_date |-> last]
    ELSE [result |-> FALSE, last_digest_date |-> last]

\* a gate that ignores the hour
should_send_any_hour(t, last) ==
    IF last # Some(Today(t))
    THEN [result |-> TRUE, last_digest_date |-> Some(Today(t))]
    ELSE [result |-> FALSE, last_digest_date |-> last]

\* should_send_daily_digest at wall clock t: what it returns and what it
\* leaves in last_digest_date
should_send_daily_digest(t, last) ==
    IF Hour(t) >= DigestHour /\ last # Some(Today(t))
    THEN [result |-> TRUE, last_digest_date |-> Some(Today(t))]
    ELSE [result |-> FALSE, last_digest_date |-> last]

RECURSIVE TotalDeals(_, _)
\* sum(len(deals) for deals in deals_by_region.values())
TotalDeals(deals, rs) ==
    IF rs = <<>> THEN 0 ELSE Len(deals[rs[1]]) + TotalDeals(deals, Tail(rs))

\* one line group of the digest per deal: the city, the price, the saving
DigestEntry(d) ==
    [city |-> d.route.city, price |-> d.flight.price,
     savings |-> d.route.max_price - d.flight.price,
     origin |-> d.flight.origin, destination |-> d.flight.destination,
     dep_date |-> d.flight.departure]

RECURSIVE DigestSections(_, _)
\* for region, deals in deals_by_region.items(): regions without deals are
\* skipped
DigestSections(deals, rs) ==
    IF rs = <<>> THEN <<>>
    ELSE IF deals[rs[1]] = <<>> THEN DigestSections(deals, Tail(rs))
    ELSE <<[region |-> rs[1],
            deals |-> [i \in 1..Len(deals[rs[1]]) |-> DigestEntry(deals[rs[1]][i])]]>>
         \o DigestSections(deals, Tail(rs))

\* format_daily_digest: None for an empty dict, else the grouped text
format_daily_digest(deals, rs) ==
    IF DOMAIN deals = {} THEN None
    ELSE Some([kind |-> "digest", total |-> TotalDeals(deals, rs),
               sections |-> DigestSections(deals, rs)])

\* no_deals_msg
no_deals_msg == [kind |-> "no_deals", total |-> 0, sections |-> <<>>]

\* format_price_drop_alert
format_price_drop_alert(alert) ==
    [kind |-> "drop", city |-> alert.route.city, price |-> alert.flight.price,
     avg_price |-> alert.avg_price, drop_percentage |-> alert.drop_percentage,
     origin |-> alert.flight.origin, destination |-> alert.flight.destination,
     dep_date |-> alert.flight.departure]

----------------------------------------------------------------------------
(* What the environment may do *)

\* prices the provider quotes per destination, the last one above the
\* route's ceiling
OfferPrices(destination) ==
    IF destination = "JFK" THEN {400, 500, 600, 1000}
    ELSE {120, 151}

\* the responses to one search: a failure, no offers, or one offer
Responses(destination) ==
    {AuthError, SearchError, Offers(<<>>)}
        \cup {Offers(<<p>>) : p \in OfferPrices(destination)}

\* the responses to the searches of one route when only the first search
\* (first origin, nearest date) can find fares
FirstCallResponses(route) ==
    {[i \in 1..(Len(route.origins) * Len(days_ahead)) |->
        IF i = 1 THEN r ELSE Offers(<<>>)] : r \in Responses(route.destination)}

\* per route of the catalog, the responses explored
RouteResponses == [i \in 1..Len(routes) |-> FirstCallResponses(routes[i])]

\* the wall clock at process start: 10:00 on day 0
StartTimes == {10 * 60}

\* time.sleep(7200): minutes slept between cycles
SleepMinutes == 120

\* how long a wait may last: the sleep alone, or the sleep and a long delay
WaitMinutes == {SleepMinutes, SleepMinutes + LongDelayHours * 60}

----------------------------------------------------------------------------
(* The program *)

\* deals_by_region = {region: [] for region in self.routes.keys()}
EmptyDeals == [r \in {regions[i] : i \in 1..Len(regions)} |-> <<>>]

\* the locals of a cycle as check_all_routes starts
BeginCycle ==
    /\ route_idx' = 1
    /\ best_flight' = None
    /\ avg_price' = None
    /\ outcome' = "-"
    /\ deals_by_region' = EmptyDeals
    /\ price_drop_alerts' = <<>>
    /\ alert_idx' = 1
    /\ sent' = <<>>
    /\ gate' = "unset"

Init ==
    /\ price_history = load_history(MissingFile)
    /\ file = MissingFile
    /\ recorded = <<>>
    /\ clock = 0
    /\ save_failures = 0
    /\ restarts = 0
    /\ now \in StartTimes
    /\ last_digest_date = None
    /\ pc = "start"
    /\ route_idx = 1
    /\ best_flight = None
    /\ avg_price = None
    /\ outcome = "-"
    /\ deals_by_region = EmptyDeals
    /\ price_drop_alerts = <<>>
    /\ alert_idx = 1
    /\ sent = <<>>
    /\ gate = "unset"
    /\ opens = <<>>
    /\ digest_sends = <<>>
    /\ seen = {}
    /\ pending = {}
    /\ searched = <<>>
    /\ digest_failed = {}
    /\ exception = None

\* run() up to the loop: test_connection succeeds or run returns
Start(ok) ==
    /\ pc = "start"
    /\ pc' = IF ok THEN "check" ELSE "stopped"
    /\ UNCHANGED <<storeVars, clock, save_failures, restarts, now,
                   last_digest_date, cycleVars, opens, digest_sends, seen,
                   pending, searched, digest_failed, exception>>

\* check_all_routes for the next route, whose searches get the responses
\* resps; the durable write of add_price ends as one of hows
CheckRoute(resps, hows) ==
    /\ pc = "check"
    /\ route_idx <= Len(routes)
    /\ LET route == routes[route_idx]
           calls == Calls(route, search_dates(Today(now)))
           best == BestOf(route, calls, resps, None)
       IN  /\ best_flight' = best
           /\ IF best = None
              THEN /\ avg_price' = None
                   /\ outcome' = "NO_FLIGHT"
                   /\ UNCHANGED <<storeVars, save_failures, deals_by_region,
                                  price_drop_alerts, seen, pending>>
              ELSE LET flight == Val(best)
                       key == get_route_key(flight.origin, flight.destination,
                                            flight.departure)
                       avg == baseline_after_add(price_history, key,
                                                 flight.price, clock)
                       digest == is_deal(route, flight.price)
                       drop == is_drop(avg, flight.price)
                   IN  /\ \E how \in hows :
                            /\ how # "ok" => save_failures < MaxSaveFailures
                            /\ Record(key, flight.price, how)
                       /\ avg_price' = avg
                       /\ deals_by_region' =
                            IF digest
                            THEN [deals_by_region EXCEPT ![route.region] =
                                    Append(@, deal(flight, route))]
                            ELSE deals_by_region
                       /\ price_drop_alerts' =
                            IF drop
                            THEN Append(price_drop_alerts,
                                        drop_alert(flight, route, Val(avg)))
                            ELSE price_drop_alerts
                       /\ outcome' = Outcome(digest, drop)
                       /\ seen' = seen \cup {outcome'}
                       /\ pending' = IF digest
                                     THEN pending \cup {deal(flight, route)}
                                     ELSE pending
           /\ route_idx' = route_idx + 1
           /\ pc' = IF route_idx < Len(routes) THEN "check"
                    ELSE IF price_drop_alerts' # <<>> THEN "alerts"
                    ELSE "digest"
    /\ UNCHANGED <<clock, restarts, now, last_digest_date, alert_idx, sent,
                   gate, opens, digest_sends, digest_failed, exception>>

\* a loop over the DROP alerts that stops at the first failed send
SendAlertUntilFailure(ok) ==
    /\ pc = "alerts"
    /\ alert_idx <= Len(price_drop_alerts)
    /\ sent' = Append(sent,
                      [text |-> format_price_drop_alert(price_drop_alerts[alert_idx]),
                       ok |-> ok])
    /\ alert_idx' = alert_idx + 1
    /\ pc' = IF ok /\ alert_idx < Len(price_drop_alerts) THEN "alerts"
             ELSE "digest"
    /\ UNCHANGED <<storeVars, clock, save_failures, restarts, now,
                   last_digest_date, route_idx, best_flight, avg_price, outcome,
                   deals_by_region, price_drop_alerts, gate, opens,
                   digest_sends, seen, pending, searched, digest_failed,
                   exception>>

\* run: the next DROP alert is formatted and handed to send_message, which
\* returns ok
SendAlert(ok) ==
    /\ pc = "alerts"
    /\ alert_idx <= Len(price_drop_alerts)
    /\ sent' = Append(sent,
                      [text |-> format_price_drop_alert(price_drop_alerts[alert_idx]),
                       ok |-> ok])
    /\ alert_idx' = alert_idx + 1
    /\ pc' = IF alert_idx < Len(price_drop_alerts) THEN "alerts" ELSE "digest"
    /\ UNCHANGED <<storeVars, clock, save_failures, restarts, now,
                   last_digest_date, route_idx, best_flight, avg_price, outcome,
                   deals_by_region, price_drop_alerts, gate, opens,
                   digest_sends, seen, pending, searched, digest_failed,
                   exception>>

\* run: the gate is asked and is closed
DigestClosed ==
    /\ pc = "digest"
    /\ LET g == should_send_daily_digest(now, last_digest_date)
       IN  /\ ~g.result
           /\ last_digest_date' = g.last_digest_date
    /\ gate' = "closed"
    /\ pc' = "sleep"
    /\ UNCHANGED <<storeVars, clock, save_failures, restarts, now, route_idx,
                   best_flight, avg_price, outcome, deals_by_region,
                   price_drop_alerts, alert_idx, sent, opens, digest_sends,
                   seen, pending, searched, digest_failed, exception>>

\* a gate whose date is advanced only when the digest was delivered
DigestOpenOnSuccess(ok) ==
    /\ pc = "digest"
    /\ LET g == should_send_daily_digest(now, last_digest_date)
           digest == format_daily_digest(deals_by_region, regions)
       IN  /\ g.result
           /\ last_digest_date' = IF ok THEN g.last_digest_date
                                  ELSE last_digest_date
           /\ sent' = Append(sent,
                             [text |-> IF digest # None THEN Val(digest)
                                       ELSE no_deals_msg,
                              ok |-> ok])
    /\ gate' = "open"
    /\ opens' = Put(opens, Today(now),
                    IF Today(now) \in DOMAIN opens THEN opens[Today(now)] + 1 ELSE 1)
    /\ digest_sends' = Put(digest_sends, Today(now),
                           IF Today(now) \in DOMAIN digest_sends
                           THEN digest_sends[Today(now)] + 1 ELSE 1)
    /\ pc' = "sleep"
    /\ UNCHANGED <<storeVars, clock, save_failures, restarts, now, route_idx,
                   best_flight, avg_price, outcome, deals_by_region,
                   price_drop_alerts, alert_idx, seen, pending, searched,
                   exception>>

\* run: the gate is asked and opens; the digest text, or the no-deals text
\* when there is none, is handed to send_message, which returns ok
DigestOpen(ok) ==
    /\ pc = "digest"
    /\ LET g == should_send_daily_digest(now, last_digest_date)
           digest == format_daily_digest(deals_by_region, regions)
       IN  /\ g.result
           /\ last_digest_date' = g.last_digest_date
           /\ sent' = Append(sent,
                             [text |-> IF digest # None THEN Val(digest)
                                       ELSE no_deals_msg,
                              ok |-> ok])
    /\ gate' = "open"
    /\ opens' = Put(opens, Today(now),
                    IF Today(now) \in DOMAIN opens THEN opens[Today(now)] + 1 ELSE 1)
    /\ digest_sends' = Put(digest_sends, Today(now),
                           IF Today(now) \in DOMAIN digest_sends
                           THEN digest_sends[Today(now)] + 1 ELSE 1)
    /\ pc' = "sleep"
    /\ UNCHANGED <<storeVars, clock, save_failures, restarts, now, route_idx,
                   best_flight, avg_price, outcome, deals_by_region,
                   price_drop_alerts, alert_idx, seen, pending, searched,
                   exception>>

\* run: the wait between cycles lasts `minutes`, then the next cycle starts
Sleep(minutes) ==
    /\ pc = "sleep"
    /\ clock + 1 < MaxCycles
    /\ clock' = clock + 1
    /\ now' = now + minutes
    /\ pc' = "check"
    /\ BeginCycle
    /\ pending' = IF gate = "open" THEN {} ELSE pending
    /\ UNCHANGED <<storeVars, save_failures, restarts, last_digest_date, opens,
                   digest_sends, seen, searched, digest_failed, exception>>

\* the process ends and is started again: a new FlightAlertBot, whose
\* PriceTracker is hydrated from the file
Restart ==
    /\ restarts < MaxRestarts
    /\ clock + 1 < MaxAdds
    /\ restarts' = restarts + 1
    /\ clock' = clock + 1
    /\ price_history' = load_history(file)
    /\ recorded' = load_history(file)
    /\ last_digest_date' = None
    /\ pc' = "start"
    /\ BeginCycle
    /\ opens' = <<>>
    /\ digest_sends' = <<>>
    /\ pending' = {}
    /\ searched' = <<>>
    /\ digest_failed' = {}
    /\ exception' = None
    /\ UNCHANGED <<file, save_failures, now, seen>>

CheckRoutes ==
    /\ pc = "check"
    /\ route_idx <= Len(routes)
    /\ \E resps \in RouteResponses[route_idx] : CheckRoute(resps, {"ok"})
    /\ UNCHANGED searched

Starts == \E ok \in BOOLEAN : Start(ok)
SendAlerts == \E ok \in BOOLEAN : SendAlert(ok)
DigestOpens == (\E ok \in BOOLEAN : DigestOpen(ok)) /\ UNCHANGED digest_failed
Sleeps == \E minutes \in WaitMinutes : Sleep(minutes)

Next ==
    \/ Starts
    \/ CheckRoutes
    \/ SendAlerts
    \/ DigestClosed
    \/ DigestOpens
    \/ Sleeps

\* one run of the program, in which every durable write succeeds
Spec == Init /\ [][Next]_vars

----------------------------------------------------------------------------
(* The price store on its own: add_price called key by key, with durable    *)
(* writes that may fail, and the process started again from the file       *)

StoreKeys ==
    <<get_route_key("AEP", "JFK", 30), get_route_key("EZE", "JFK", 30)>>

StorePrices == {550}

\* add_price(origin, destination, date, price) at the next instant
StoreAdd(key, price, how) ==
    /\ clock < MaxAdds
    /\ how # "ok" => save_failures < MaxSaveFailures
    /\ Record(key, price, how)
    /\ clock' = clock + 1
    /\ UNCHANGED <<restarts, now, last_digest_date, pc, cycleVars, opens,
                   digest_sends, seen, pending, searched, digest_failed,
                   exception>>

\* the recordings around which the store specification explores faults
Eventful == clock < MixedAdds \/ clock >= Window

StoreAdds ==
    \E i \in 1..Len(StoreKeys), price \in StorePrices, how \in SaveOutcomes :
        /\ i = 1 \/ clock < MixedAdds
        /\ how = "ok" \/ Eventful
        /\ StoreAdd(StoreKeys[i], price, how)

StoreRestarts == Eventful /\ Restart

NextStore ==
    \/ StoreAdds
    \/ StoreRestarts

SpecStore == Init /\ [][NextStore]_vars

----------------------------------------------------------------------------
(* The dispatch of one run: fares with which both routes can fall below    *)
(* their baseline in the same cycle, and a record of the days on which     *)
(* send_message returned False for the digest                              *)

\* prices the provider quotes per destination in the dispatch specification
DispatchPrices(destination) ==
    IF destination = "JFK" THEN {600, 400} ELSE {120, 80}

\* the first search of the route finds one fare, the others none
DispatchResponses(route) ==
    {[i \in 1..(Len(route.origins) * Len(days_ahead)) |->
        IF i = 1 THEN Offers(<<p>>) ELSE Offers(<<>>)] :
            p \in DispatchPrices(route.destination)}

DispatchCheckRoutes ==
    /\ pc = "check"
    /\ route_idx <= Len(routes)
    /\ \E resps \in DispatchResponses(routes[route_idx]) :
           CheckRoute(resps, {"ok"})
    /\ UNCHANGED searched

DispatchDigestOpens ==
    \E ok \in BOOLEAN :
        /\ DigestOpen(ok)
        /\ digest_failed' = IF ok THEN digest_failed
                            ELSE digest_failed \cup {Today(now)}

NextDispatch ==
    \/ Starts
    \/ DispatchCheckRoutes
    \/ SendAlerts
    \/ DigestClosed
    \/ DispatchDigestOpens
    \/ Sleeps

\* the wall clock at process start: 06:00 or 10:00 on day 0; from 06:00
\* the third cycle of the day is the one in which the gate opens
DispatchStartTimes == {6 * 60, 10 * 60}

InitDispatch ==
    /\ price_history = load_history(MissingFile)
    /\ file = MissingFile
    /\ recorded = <<>>
    /\ clock = 0
    /\ save_failures = 0
    /\ restarts = 0
    /\ now \in DispatchStartTimes
    /\ last_digest_date = None
    /\ pc = "start"
    /\ route_idx = 1
    /\ best_flight = None
    /\ avg_price = None
    /\ outcome = "-"
    /\ deals_by_region = EmptyDeals
    /\ price_drop_alerts = <<>>
    /\ alert_idx = 1
    /\ sent = <<>>
    /\ gate = "unset"
    /\ opens = <<>>
    /\ digest_sends = <<>>
    /\ seen = {}
    /\ pending = {}
    /\ searched = <<>>
    /\ digest_failed = {}
    /\ exception = None

SpecDispatch == InitDispatch /\ [][NextDispatch]_vars

----------------------------------------------------------------------------
(* The handlers of run(): an exception inside a cycle, the back-off, and   *)
(* KeyboardInterrupt                                                       *)

\* time.sleep(1800): minutes slept after an error
BackoffMinutes == 30

\* where the loop of run() stands while it runs
LoopStates == {"check", "alerts", "digest", "sleep", "backoff"}

\* an exception as the handlers of run() see it
Raised(kind, caught) == Some([kind |-> kind, caught |-> caught])

\* an exception handler that logs and lets the error leave run()
RaiseUncaught ==
    /\ pc \in {"check", "alerts"}
    /\ pc' = "crashed"
    /\ exception' = Raised("Exception", FALSE)
    /\ UNCHANGED <<storeVars, clock, save_failures, restarts, now,
                   last_digest_date, cycleVars, opens, digest_sends, seen,
                   pending, searched, digest_failed>>

\* an error handler that counts the day's digest as done
RaiseForfeitsDigest ==
    /\ pc \in {"check", "alerts"}
    /\ pc' = "backoff"
    /\ exception' = Raised("Exception", TRUE)
    /\ last_digest_date' = Some(Today(now))
    /\ UNCHANGED <<storeVars, clock, save_failures, restarts, now,
                   cycleVars, opens, digest_sends, seen, pending, searched,
                   digest_failed>>

\* an Exception raised inside check_all_routes (between two routes) or while
\* the DROP alerts are formatted and sent: `except Exception` logs it
Raise ==
    /\ pc \in {"check", "alerts"}
    /\ pc' = "backoff"
    /\ exception' = Raised("Exception", TRUE)
    /\ UNCHANGED <<storeVars, clock, save_failures, restarts, now,
                   last_digest_date, cycleVars, opens, digest_sends, seen,
                   pending, searched, digest_failed>>

\* an Exception raised by format_daily_digest: the gate has opened and
\* last_digest_date is set, nothing is handed to send_message
RaiseInDigest ==
    /\ pc = "digest"
    /\ LET g == should_send_daily_digest(now, last_digest_date)
       IN  /\ g.result
           /\ last_digest_date' = g.last_digest_date
    /\ gate' = "open"
    /\ opens' = Put(opens, Today(now),
                    IF Today(now) \in DOMAIN opens THEN opens[Today(now)] + 1 ELSE 1)
    /\ pc' = "backoff"
    /\ exception' = Raised("Exception", TRUE)
    /\ UNCHANGED <<storeVars, clock, save_failures, restarts, now, route_idx,
                   best_flight, avg_price, outcome, deals_by_region,
                   price_drop_alerts, alert_idx, sent, digest_sends, seen,
                   pending, searched, digest_failed>>

\* the sleep of the error handler, then the loop starts a new cycle
BackOff ==
    /\ pc = "backoff"
    /\ clock + 1 < MaxCycles
    /\ clock' = clock + 1
    /\ now' = now + BackoffMinutes
    /\ pc' = "check"
    /\ BeginCycle
    /\ exception' = None
    /\ UNCHANGED <<storeVars, save_failures, restarts, last_digest_date, opens,
                   digest_sends, seen, pending, searched, digest_failed>>

\* a loop without `except KeyboardInterrupt`: the interrupt leaves run()
InterruptEscapes ==
    /\ pc \in LoopStates
    /\ pc' = "crashed"
    /\ exception' = Raised("KeyboardInterrupt", FALSE)
    /\ UNCHANGED <<storeVars, clock, save_failures, restarts, now,
                   last_digest_date, cycleVars, opens, digest_sends, seen,
                   pending, searched, digest_failed>>

\* KeyboardInterrupt: inside the try block `except KeyboardInterrupt` breaks
\* out of the loop and run() returns; inside the sleep of the error handler
\* nothing catches it and it leaves run()
Interrupt ==
    /\ pc \in LoopStates
    /\ IF pc = "backoff"
       THEN pc' = "crashed" /\ exception' = Raised("KeyboardInterrupt", FALSE)
       ELSE pc' = "interrupted" /\ exception' = Raised("KeyboardInterrupt", TRUE)
    /\ UNCHANGED <<storeVars, clock, save_failures, restarts, now,
                   last_digest_date, cycleVars, opens, digest_sends, seen,
                   pending, searched, digest_failed>>

\* the searches of a route whose first search finds one fare or fails, the
\* others finding none
FaultResponses(route) ==
    {[i \in 1..(Len(route.origins) * Len(days_ahead)) |->
        IF i = 1 THEN r ELSE Offers(<<>>)] :
            r \in IF route.destination = "JFK"
                  THEN {Offers(<<600>>), Offers(<<400>>), SearchError}
                  ELSE {Offers(<<120>>), AuthError}}

\* a durable write succeeds or open() fails
FaultSaveOutcomes == {"ok", "denied"}

\* check_all_routes with searches and durable writes that may fail
FaultCheckRoutes ==
    /\ pc = "check"
    /\ route_idx <= Len(routes)
    /\ \E resps \in FaultResponses(routes[route_idx]) :
           CheckRoute(resps, FaultSaveOutcomes)
    /\ UNCHANGED searched

\* the wait between cycles lasts as long as the sleep
FaultSleeps == Sleep(SleepMinutes)

NextFaults ==
    \/ Starts
    \/ FaultCheckRoutes
    \/ SendAlerts
    \/ DigestClosed
    \/ DigestOpens
    \/ FaultSleeps
    \/ Raise
    \/ RaiseInDigest
    \/ BackOff
    \/ Interrupt

SpecFaults == Init /\ [][NextFaults]_vars

----------------------------------------------------------------------------
(* The searches of one cycle: failures, empty answers, offers above the     *)
(* ceiling and equal prices, on several origins and dates of each route    *)

\* what one search may get per destination: the two failures, no offer,
\* offers above the ceiling, at it and below it
SearchReplies(destination) ==
    IF destination = "JFK"
    THEN {AuthError, SearchError, Offers(<<>>), Offers(<<1000>>),
          Offers(<<600>>), Offers(<<1000, 500, 600>>)}
    ELSE {SearchError, Offers(<<151>>), Offers(<<150>>), Offers(<<151, 120>>)}

\* the searches whose answer varies: first origin with the first and second
\* date, second origin with the first date
VariedCalls == {1, 2, 4}

SearchResponses(route) ==
    {[i \in 1..(Len(route.origins) * Len(days_ahead)) |->
        IF i \in VariedCalls THEN f[i] ELSE Offers(<<>>)] :
            f \in [VariedCalls -> SearchReplies(route.destination)]}

\* check_all_routes for the next route, the responses it got being kept
SearchCheckRoutes ==
    /\ pc = "check"
    /\ route_idx <= Len(routes)
    /\ \E resps \in SearchResponses(routes[route_idx]) :
           /\ CheckRoute(resps, {"ok"})
           /\ searched' = resps

NextSearch ==
    \/ Starts
    \/ SearchCheckRoutes
    \/ DigestOpens

SpecSearch == Init /\ [][NextSearch]_vars

----------------------------------------------------------------------------
(* The price store started on any content of price_history.json            *)

\* add_price calls explored after the start
MaxHydrateCalls == 3

\* a file written by an earlier run: three observations under the first key
EarlierRunFile ==
    [state |-> "ok",
     data |-> [k \in {StoreKeys[1]} |->
                 <<[price |-> 600, timestamp |-> 0],
                   [price |-> 600, timestamp |-> 0],
                   [price |-> 600, timestamp |-> 0]>>]]

\* price_history.json at startup: absent, not openable, not JSON, the JSON
\* of an earlier run, a JSON null/number/boolean, or a JSON array
StartupFiles ==
    {MissingFile, EarlierRunFile}
        \cup {[state |-> st, data |-> <<>>] :
                st \in {"unreadable", "corrupt", "scalar", "array"}}

InitHydrate ==
    /\ file \in StartupFiles
    /\ price_history = load_history(file)
    /\ recorded = IF file.state = "ok" THEN file.data ELSE <<>>
    /\ clock = 0
    /\ save_failures = 0
    /\ restarts = 0
    /\ now \in StartTimes
    /\ last_digest_date = None
    /\ pc = "start"
    /\ route_idx = 1
    /\ best_flight = None
    /\ avg_price = None
    /\ outcome = "-"
    /\ deals_by_region = EmptyDeals
    /\ price_drop_alerts = <<>>
    /\ alert_idx = 1
    /\ sent = <<>>
    /\ gate = "unset"
    /\ opens = <<>>
    /\ digest_sends = <<>>
    /\ seen = {}
    /\ pending = {}
    /\ searched = <<>>
    /\ digest_failed = {}
    /\ exception = None

\* add_price(origin, destination, date, price), then get_average_price for
\* the same key as check_all_routes calls them; on a store that is a list,
\* `self.price_history[route_key] = []` raises TypeError to the caller
HydrateAdd(key, price, how) ==
    /\ clock < MaxHydrateCalls
    /\ clock' = clock + 1
    /\ IF IsArray(price_history)
       THEN /\ exception' = Raised("Exception", FALSE)
            /\ recorded' = Put(recorded, key,
                               Append(IF key \in DOMAIN recorded
                                      THEN recorded[key] ELSE <<>>,
                                      [price |-> price, timestamp |-> clock]))
            /\ UNCHANGED <<price_history, file, save_failures, avg_price>>
       ELSE /\ how # "ok" => save_failures < MaxSaveFailures
            /\ Record(key, price, how)
            /\ avg_price' = get_average_price(price_history', key)
            /\ UNCHANGED exception
    /\ UNCHANGED <<restarts, now, last_digest_date, pc, route_idx, best_flight,
                   outcome, deals_by_region, price_drop_alerts, alert_idx,
                   sent, gate, opens, digest_sends, seen, pending, searched,
                   digest_failed>>

\* get_average_price(origin, destination, date) on its own: on a list
\* `route_key not in self.price_history` holds and None is returned
HydrateAverage(key) ==
    /\ avg_price' = get_average_price(price_history, key)
    /\ UNCHANGED <<storeVars, clock, save_failures, restarts, now,
                   last_digest_date, pc, route_idx, best_flight, outcome,
                   deals_by_region, price_drop_alerts, alert_idx, sent, gate,
                   opens, digest_sends, seen, pending, searched,
                   digest_failed, exception>>

HydrateAdds ==
    \E i \in 1..Len(StoreKeys), price \in StorePrices, how \in SaveOutcomes :
        HydrateAdd(StoreKeys[i], price, how)

HydrateAverages == \E i \in 1..Len(StoreKeys) : HydrateAverage(StoreKeys[i])

NextHydrate ==
    \/ HydrateAdds
    \/ HydrateAverages

SpecHydrate == InitHydrate /\ [][NextHydrate]_vars

----------------------------------------------------------------------------
(* Properties *)

RECURSIVE PriceTotal(_, _)
\* the sum of the prices of the first i observations of h
PriceTotal(h, i) ==
    IF i = 0 THEN 0 ELSE h[i].price + PriceTotal(h, i - 1)

\* the key under which check_all_routes files a fare
KeyOf(flight) ==
    get_route_key(flight.origin, flight.destination, flight.departure)

\* the observations the store holds under a key, none for an unknown key
Held(key) ==
    IF key \in DOMAIN price_history THEN price_history[key] ELSE <<>>

\* C1: in every state of the price store, the state right after hydration
\* included, every key holds at most 30 observations, in the order in which
\* they were recorded, and they are exactly the last min(k, 30) of the k
\* observations recorded under the key (those hydrated at startup, then
\* those of every add_price since).
C1_WindowHoldsLastRecorded ==
    /\ DOMAIN price_history = DOMAIN recorded
    /\ \A key \in DOMAIN price_history :
         LET kept == price_history[key]
             all == recorded[key]
             n == IF Len(all) <= 30 THEN Len(all) ELSE 30
         IN  /\ Len(kept) <= 30
             /\ Len(kept) = n
             /\ \A i \in 1..n : kept[i] = all[Len(all) - n + i]
             /\ \A i \in 1..(Len(kept) - 1) :
                    kept[i].timestamp < kept[i + 1].timestamp

\* C1 happens: a process that was started again from the file has recorded
\* a 31st observation under a key, and the oldest one is gone
C1_Witness ==
    /\ restarts = 1
    /\ \E key \in DOMAIN recorded :
         /\ Len(recorded[key]) = 31
         /\ Len(price_history[key]) = 30
         /\ price_history[key][1] = recorded[key][2]

\* C2: for every key, known or not, get_average_price is absent when the
\* key holds fewer than 3 observations and is otherwise the arithmetic mean
\* of all prices held for the key; the baseline check_all_routes read for
\* the fare it just recorded is that value.
C2_AverageIsMeanFromThree ==
    /\ \A key \in DOMAIN price_history \cup {get_route_key("AEP", "LHR", 0)} :
         LET h == Held(key)
             avg == get_average_price(price_history, key)
         IN  IF Len(h) < 3
             THEN avg = None
             ELSE /\ avg # None
                  /\ Val(avg).den > 0
                  /\ Val(avg).num * Len(h) = PriceTotal(h, Len(h)) * Val(avg).den
    /\ best_flight # None =>
         LET h == Held(KeyOf(Val(best_flight)))
         IN  IF Len(h) < 3
             THEN avg_price = None
             ELSE /\ avg_price # None
                  /\ Val(avg_price).den > 0
                  /\ Val(avg_price).num * Len(h)
                        = PriceTotal(h, Len(h)) * Val(avg_price).den

\* C2 happens: the third observation of a key has just been recorded, the
\* baseline read for it is defined, and another key with two observations
\* has none
C2_Witness ==
    /\ best_flight # None
    /\ Len(Held(KeyOf(Val(best_flight)))) = 3
    /\ avg_price # None
    /\ \E key \in DOMAIN price_history :
         /\ Len(price_history[key]) = 2
         /\ get_average_price(price_history, key) = None

\* C3: every DROP alert of price_drop_alerts is for a fare under whose key
\* the store holds at least 3 observations.
C3_DropAlertHasThreeObservations ==
    \A i \in 1..Len(price_drop_alerts) :
        LET key == KeyOf(price_drop_alerts[i].flight)
        IN  /\ key \in DOMAIN price_history
            /\ Len(price_history[key]) >= 3

\* C3 happens: a DROP alert was appended on the third observation of its key
C3_Witness ==
    /\ price_drop_alerts # <<>>
    /\ Len(Held(KeyOf(price_drop_alerts[1].flight))) = 3

\* the deals of deals_by_region that are for the fare just retained
DealsOfBest ==
    LET route == routes[route_idx - 1]
    IN  {i \in 1..Len(deals_by_region[route.region]) :
            deals_by_region[route.region][i] = deal(Val(best_flight), route)}

\* the DROP alerts of price_drop_alerts that are for the fare just retained
AlertsOfBest ==
    {i \in 1..Len(price_drop_alerts) :
        /\ price_drop_alerts[i].flight = Val(best_flight)
        /\ price_drop_alerts[i].route = routes[route_idx - 1]}

\* C4: for the fare just retained for a route, deals_by_region holds a deal
\* for it if and only if (max_price - price) / max_price >= 0.20; no deal
\* held has a saving below 0.20; a fare of 500 on a route with max_price 700
\* and no baseline gives exactly one deal and no DROP alert.
C4_DigestIffSavingAtLeastFifth ==
    /\ best_flight # None =>
         LET route == routes[route_idx - 1]
             price == Val(best_flight).price
         IN  /\ Cardinality(DealsOfBest)
                  = IF 100 * (route.max_price - price) >= 20 * route.max_price
                    THEN 1 ELSE 0
             /\ (route.max_price = 700 /\ price = 500 /\ avg_price = None) =>
                  /\ Cardinality(DealsOfBest) = 1
                  /\ AlertsOfBest = {}
    /\ \A r \in DOMAIN deals_by_region : \A i \in 1..Len(deals_by_region[r]) :
         LET d == deals_by_region[r][i]
         IN  /\ d.route.region = r
             /\ 100 * (d.route.max_price - d.flight.price) >= 20 * d.route.max_price

\* C4 happens: a fare of 500 was retained on the route with max_price 700
\* while its key had no baseline, and a fare at exactly 80% of max_price
\* became a deal in the same cycle
C4_Witness ==
    /\ best_flight # None
    /\ deals_by_region["US & Canada"] # <<>>
    /\ deals_by_region["US & Canada"][1].flight.price = 500
    /\ deals_by_region["US & Canada"][1].route.max_price = 700
    /\ Len(Held(KeyOf(deals_by_region["US & Canada"][1].flight))) < 3
    /\ price_drop_alerts = <<>>
    /\ deals_by_region["Brazil"] # <<>>
    /\ 100 * deals_by_region["Brazil"][1].flight.price
          = 80 * deals_by_region["Brazil"][1].route.max_price

\* C5: for the fare just retained, price_drop_alerts holds an alert for it
\* if and only if the baseline read is present, price < baseline and
\* (baseline - price) / baseline >= 0.20; the alert carries that baseline as
\* avg_price and 100 * (baseline - price) / baseline as drop_percentage; no
\* alert held carries less than 20; a baseline of 600 and a price of 450
\* give an alert with avg_price 600 and drop_percentage 25.
C5_DropIffFifthBelowBaseline ==
    /\ best_flight # None =>
         LET price == Val(best_flight).price
             due == /\ avg_price # None
                    /\ price * Val(avg_price).den < Val(avg_price).num
                    /\ 100 * (Val(avg_price).num - price * Val(avg_price).den)
                          >= 20 * Val(avg_price).num
         IN  /\ Cardinality(AlertsOfBest) = IF due THEN 1 ELSE 0
             /\ \A i \in AlertsOfBest :
                  LET a == price_drop_alerts[i]
                      b == Val(avg_price)
                  IN  /\ a.avg_price = b
                      /\ a.drop_percentage.den > 0
                      /\ a.drop_percentage.num * b.num
                            = 100 * (b.num - price * b.den) * a.drop_percentage.den
    /\ \A i \in 1..Len(price_drop_alerts) :
         LET a == price_drop_alerts[i]
         IN  /\ a.drop_percentage.den > 0
             /\ a.drop_percentage.num >= 20 * a.drop_percentage.den
    /\ LET flight == [price |-> 450, origin |-> "AEP", destination |-> "JFK",
                      departure |-> 30]
           a == drop_alert(flight, routes[1], Frac(600, 1))
       IN  /\ is_drop(Some(Frac(600, 1)), 450)
           /\ a.avg_price = Frac(600, 1)
           /\ a.drop_percentage.num = 25 * a.drop_percentage.den

\* C5 happens: an alert was appended for the fare just retained, whose price
\* is exactly 20% below the baseline read
C5_Witness ==
    /\ best_flight # None
    /\ avg_price # None
    /\ AlertsOfBest # {}
    /\ \E i \in AlertsOfBest :
         price_drop_alerts[i].drop_percentage.num
            = 20 * price_drop_alerts[i].drop_percentage.den

\* C6: of the four outcomes of the two decisions for one fare, "DROP only"
\* is never produced: every fare with a DROP alert also has a deal in
\* deals_by_region.  (The other three are produced: see C6_Witness.)
C6_NoDropWithoutDigest ==
    /\ "DROP" \notin seen
    /\ outcome # "DROP"
    /\ \A i \in 1..Len(price_drop_alerts) :
         LET a == price_drop_alerts[i]
         IN  \E j \in 1..Len(deals_by_region[a.route.region]) :
                deals_by_region[a.route.region][j] = deal(a.flight, a.route)

\* C6 happens: no alert, DIGEST only and both DIGEST and DROP have each
\* been produced, the last one in this cycle
C6_Witness ==
    /\ seen = {"NONE", "DIGEST", "BOTH"}
    /\ outcome = "BOTH"
    /\ price_drop_alerts # <<>>

\* a grid of prices at or below a route's ceiling: those whose twentyfold
\* is a multiple of it, the ceiling and 80% of it among them
CeilingPrices(route) ==
    {p \in 1..route.max_price : (20 * p) % route.max_price = 0}

\* the stores a key of the route can hold before a fare is recorded: up to
\* two earlier fares, each at or below the ceiling
EarlierFares(route) ==
    UNION {[1..n -> CeilingPrices(route)] : n \in 0..2}

\* what check_all_routes emits for a fare of `price` on `route` whose key
\* holds the earlier fares `earlier`
Classify(route, earlier, price) ==
    LET key == get_route_key(route.origins[1], route.destination, 30)
        before == IF earlier = <<>> THEN <<>>
                  ELSE Put(<<>>, key,
                           [i \in 1..Len(earlier) |->
                               [price |-> earlier[i], timestamp |-> i]])
        after == add_price(before, key, price, Len(earlier) + 1)
    IN  Outcome(is_deal(route, price),
                is_drop(get_average_price(after, key), price))

\* the keys under which this cycle's searches of the route can file a fare
RouteKeys(route) ==
    {get_route_key(route.origins[i], route.destination,
                   search_dates(Today(now))[j]) :
        i \in 1..Len(route.origins), j \in 1..Len(days_ahead)}

\* the prices the store holds now under the keys of the route, key by key
HeldFares(route) ==
    {[i \in 1..Len(price_history[key]) |-> price_history[key][i].price] :
        key \in DOMAIN price_history \cap RouteKeys(route)}

\* C6 as stated: each of the four outcomes is produced, for some route, some
\* fare at or below its ceiling and some earlier fares of the key: those the
\* store holds now, or any one or two fares at or below the ceiling.
C6_AllFourOutcomes ==
    \A o \in {"NONE", "DIGEST", "DROP", "BOTH"} :
        \E r \in 1..Len(routes) :
            \E earlier \in EarlierFares(routes[r]) \cup HeldFares(routes[r]) :
                \E price \in CeilingPrices(routes[r]) :
                    Classify(routes[r], earlier, price) = o

\* C7: in every step in which run asks the gate, the gate opens only at an
\* hour >= 9 and only on a day on which it has not opened before; when it
\* opens last_digest_date becomes the current date, when it stays closed
\* last_digest_date is unchanged; asked at hour 10 with last_digest_date
\* absent it opens, asked at hour 14 on the day it opened it stays closed.
C7_GateOncePerDayFromNine ==
    /\ [](\A d \in DOMAIN opens : opens[d] <= 1)
    /\ [][(pc = "digest" /\ pc' = "sleep") =>
            /\ gate' \in {"open", "closed"}
            /\ gate' = "open" =>
                 /\ Hour(now) >= 9
                 /\ last_digest_date # Some(Today(now))
                 /\ Today(now) \notin DOMAIN opens
                 /\ last_digest_date' = Some(Today(now))
            /\ gate' = "closed" => last_digest_date' = last_digest_date
            /\ (Hour(now) = 10 /\ last_digest_date = None) => gate' = "open"
            /\ (Hour(now) = 14 /\ last_digest_date = Some(Today(now))) =>
                 gate' = "closed"
         ]_vars

\* C7 happens: the gate opened at hour 10 and, asked again at hour 14 of
\* the same day, stayed closed
C7_Witness ==
    /\ gate = "closed"
    /\ Hour(now) = 14
    /\ last_digest_date = Some(Today(now))
    /\ Today(now) \in DOMAIN opens
    /\ opens[Today(now)] = 1

\* C8 as stated: when the gate opens in a cycle whose deals_by_region holds
\* no deal in any region, the text handed to send_message is the no-deals
\* message.
C8_NoDealsTextWhenNoDeals ==
    (/\ gate = "open"
     /\ \A r \in DOMAIN deals_by_region : deals_by_region[r] = <<>>)
        => /\ sent # <<>>
           /\ sent[Len(sent)].text = no_deals_msg

\* the digest-shaped texts handed to send_message in this cycle
DigestShaped ==
    {i \in 1..Len(sent) : sent[i].text.kind \in {"digest", "no_deals"}}

C10_HeldDealsAreInNextDigest ==
    gate = "open" =>
        /\ sent # <<>>
        /\ \A d \in pending :
             LET text == sent[Len(sent)].text
             IN  \E s \in 1..Len(text.sections) :
                    \E j \in 1..Len(text.sections[s].deals) :
                        text.sections[s].deals[j] = DigestEntry(d)

\* C11: when send_message returns False for the digest text, last_digest_date
\* is the current date all the same, the cycle hands no second digest-shaped
\* text to send_message, and no later cycle of that day hands one either
\* (the day keeps exactly one digest send); on a later day on which the gate
\* has not opened yet, the gate opens as soon as it is asked at hour >= 9.
C11_FailedDigestStillAdvancesGate ==
    /\ [](/\ \A d \in digest_failed :
                d \in DOMAIN digest_sends /\ digest_sends[d] = 1
          /\ Today(now) \in digest_failed =>
                last_digest_date = Some(Today(now))
          /\ (gate = "open" /\ ~sent[Len(sent)].ok) =>
                /\ Today(now) \in digest_failed
                /\ DigestShaped = {Len(sent)})
    /\ [][(pc = "digest" /\ digest_failed # {}) =>
            IF Today(now) \in digest_failed
            THEN gate' = "closed" /\ sent' = sent
                 /\ last_digest_date' = last_digest_date
            ELSE (Hour(now) >= DigestHour /\ Today(now) \notin DOMAIN opens) =>
                    /\ gate' = "open"
                    /\ last_digest_date' = Some(Today(now))
                    /\ Len(sent') = Len(sent) + 1]_vars

\* the digest failed on one day and the gate has opened again on the next
C11_Witness ==
    \E d \in digest_failed :
        /\ Today(now) = d + 1
        /\ gate = "open"
        /\ last_digest_date = Some(d + 1)

\* C12: an Exception raised while a cycle searches, classifies or dispatches
\* is caught by run(): the loop goes to the back-off and nowhere else, it
\* never ends on it, the back-off lasts 30 minutes (not the 2 hours of the
\* normal wait) and is followed by the search of the first route of a new
\* cycle, with the store and last_digest_date as the failed cycle left them.
C12_ExceptionBacksOffThenSearches ==
    /\ []((exception # None /\ Val(exception).kind = "Exception") =>
             (pc = "backoff" /\ Val(exception).caught))
    /\ [][/\ (exception' # exception /\ exception' # None
                 /\ Val(exception').kind = "Exception") =>
                (pc \in {"check", "alerts", "digest"} /\ pc' = "backoff")
          /\ (pc = "backoff" /\ pc' \in LoopStates \ {"backoff"}) =>
                /\ pc' = "check"
                /\ now' = now + BackoffMinutes
                /\ now' # now + SleepMinutes
                /\ route_idx' = 1
                /\ deals_by_region' = EmptyDeals
                /\ price_drop_alerts' = <<>>
                /\ sent' = <<>>
                /\ exception' = None
                /\ price_history' = price_history
                /\ last_digest_date' = last_digest_date]_vars

\* a new cycle that starts 30 minutes after the first one, whose digest
\* formatting raised after the gate had opened
C12_Witness ==
    /\ pc = "check"
    /\ route_idx = 1
    /\ \E t \in StartTimes : now = t + BackoffMinutes
    /\ last_digest_date = Some(Today(now))
    /\ exception = None

\* C13: the loop of run() is left only by a step on which KeyboardInterrupt
\* is raised: no failed search, failed write, failed send or Exception in a
\* cycle leaves it; when the interrupt comes during the 2-hour wait, run()
\* returns with the interrupt caught.
C13_LoopLeftOnlyByInterrupt ==
    /\ []((pc \in {"interrupted", "crashed"}) =>
             (exception # None /\ Val(exception).kind = "KeyboardInterrupt"))
    /\ [][(pc \in LoopStates /\ pc' \notin LoopStates) =>
             /\ exception' # None
             /\ Val(exception').kind = "KeyboardInterrupt"
             /\ pc = "sleep" =>
                   (pc' = "interrupted" /\ Val(exception').caught)]_vars

\* run() has returned on an interrupt that came during the wait of a cycle
\* later than the first, after a durable write had failed
C13_Witness ==
    /\ pc = "interrupted"
    /\ gate # "unset"
    /\ clock > 0
    /\ save_failures > 0
    /\ Val(exception).caught

\* the route whose searches `searched` holds, and those searches
SearchedRoute == routes[route_idx - 1]
SearchedCalls == Calls(SearchedRoute, search_dates(Today(now)))

\* the prices at or below the ceiling among the offers search i returned
Qualifying(i) ==
    IF searched[i].kind # "ok" THEN {}
    ELSE {searched[i].offers[k] : k \in 1..Len(searched[i].offers)}
            \cap 0..SearchedRoute.max_price

AllQualifying == UNION {Qualifying(i) : i \in 1..Len(searched)}

\* the lowest of them and the first search that returned it
MinQualifying == CHOOSE p \in AllQualifying : \A q \in AllQualifying : p <= q
FirstWithMin ==
    CHOOSE i \in 1..Len(searched) :
        /\ MinQualifying \in Qualifying(i)
        /\ \A j \in 1..(i - 1) : MinQualifying \notin Qualifying(j)

\* C14: a search that fails (no token, transport or parse error) counts as a
\* search that found no fare, for that search alone: every fare at or below
\* the ceiling that a later search of the route returns still bounds the
\* fare retained; a route whose searches all fail retains nothing; and the
\* step that processes a route with failed searches goes on to the next
\* route or to the dispatch of the cycle, never to the error handler.
C14_FailedSearchIsNoFare ==
    /\ [](/\ exception = None
          /\ searched # <<>> =>
               /\ \A i \in 1..Len(searched) : searched[i].kind # "ok" =>
                     \A j \in (i + 1)..Len(searched) : \A p \in Qualifying(j) :
                        best_flight # None /\ Val(best_flight).price <= p
               /\ (\A i \in 1..Len(searched) : searched[i].kind # "ok") =>
                     (best_flight = None /\ outcome = "NO_FLIGHT"))
    /\ [][(pc = "check" /\ searched' # searched
             /\ \E i \in 1..Len(searched') : searched'[i].kind # "ok") =>
                /\ route_idx' = route_idx + 1
                /\ pc' = IF route_idx < Len(routes) THEN "check"
                         ELSE IF price_drop_alerts' # <<>> THEN "alerts"
                         ELSE "digest"]_vars

\* the first search of the last route failed, a later one found a fare, and
\* the cycle has sent its digest
C14_Witness ==
    /\ pc = "sleep"
    /\ searched # <<>>
    /\ searched[1].kind = "error"
    /\ best_flight # None
    /\ Val(best_flight).origin = "EZE"
    /\ sent # <<>>

\* C15: the fare retained for a route is the lowest price at or below the
\* ceiling among all offers its searches returned, taken from the first
\* search, in origin-major date-minor order, that returned that price, and
\* it is the one recorded; when no search returned such an offer, nothing is
\* retained, nothing is recorded under the route's keys and the route has
\* no deal.
C15_RetainedFareIsFirstCheapest ==
    searched # <<>> =>
        IF AllQualifying = {}
        THEN /\ best_flight = None
             /\ outcome = "NO_FLIGHT"
             /\ avg_price = None
             /\ RouteKeys(SearchedRoute) \cap DOMAIN price_history = {}
             /\ deals_by_region[SearchedRoute.region] = <<>>
        ELSE /\ best_flight =
                  Some([price |-> MinQualifying,
                        origin |-> SearchedCalls[FirstWithMin].origin,
                        destination |-> SearchedRoute.destination,
                        departure |-> SearchedCalls[FirstWithMin].departure_date])
             /\ Held(KeyOf(Val(best_flight))) =
                  <<[price |-> MinQualifying, timestamp |-> clock]>>
             /\ RouteKeys(SearchedRoute) \cap DOMAIN price_history =
                  {KeyOf(Val(best_flight))}

\* the second search (first origin, second date) and the fourth (second
\* origin, first date) returned the same lowest price: the second is kept
C15_Witness ==
    /\ searched # <<>>
    /\ AllQualifying # {}
    /\ MinQualifying \in Qualifying(2) \cap Qualifying(4)
    /\ MinQualifying \notin Qualifying(1)
    /\ FirstWithMin = 2
    /\ Val(best_flight).origin = SearchedRoute.origins[1]
    /\ Val(best_flight).departure = search_dates(Today(now))[2]

\* C16: every fare retained, every fare recorded in the store and every fare
\* of a deal or of a DROP alert has a price at or below the max_price of its
\* route, whatever the offers returned; so the savings ratio of a classified
\* fare is never negative.
C16_FaresWithinCeiling ==
    /\ \A r \in 1..Len(routes) :
         \A key \in RouteKeys(routes[r]) \cap DOMAIN price_history :
            \A k \in 1..Len(price_history[key]) :
               price_history[key][k].price <= routes[r].max_price
    /\ (searched # <<>> /\ best_flight # None) =>
         /\ Val(best_flight).price <= SearchedRoute.max_price
         /\ threshold_savings(SearchedRoute, Val(best_flight).price).num >= 0
    /\ \A g \in DOMAIN deals_by_region : \A k \in 1..Len(deals_by_region[g]) :
         LET d == deals_by_region[g][k]
         IN  /\ d.flight.price <= d.route.max_price
             /\ threshold_savings(d.route, d.flight.price).num >= 0
    /\ \A k \in 1..Len(price_drop_alerts) :
         price_drop_alerts[k].flight.price <= price_drop_alerts[k].route.max_price

\* a route for which searches returned an offer above the ceiling and one at
\* the ceiling: the fare at the ceiling is retained and recorded, saving 0
C16_Witness ==
    /\ searched # <<>>
    /\ \E i \in 1..Len(searched) : \E k \in 1..Len(searched[i].offers) :
          searched[i].offers[k] > SearchedRoute.max_price
    /\ best_flight # None
    /\ Val(best_flight).price = SearchedRoute.max_price
    /\ threshold_savings(SearchedRoute, Val(best_flight).price).num = 0
    /\ Held(KeyOf(Val(best_flight))) # <<>>

\* C17: a step of check_all_routes whose durable write fails raises nothing:
\* the key's in-memory sequence ends with the new observation and holds at
\* most 30, the file is not the dump of the store, the baseline read next is
\* the average of the in-memory sequence, the fare is classified and the
\* cycle goes on; every baseline read later is computed from memory too.
C17_FailedWriteKeepsMemory ==
    /\ [](avg_price # None =>
             /\ best_flight # None
             /\ avg_price = get_average_price(price_history,
                                              KeyOf(Val(best_flight))))
    /\ [][save_failures' > save_failures =>
            /\ exception' = None
            /\ best_flight' # None
            /\ LET key == KeyOf(Val(best_flight'))
                   seq == price_history'[key]
               IN  /\ key \in DOMAIN price_history'
                   /\ seq[Len(seq)] = [price |-> Val(best_flight').price,
                                       timestamp |-> clock]
                   /\ Len(seq) = Len(Held(key)) + 1
                   /\ Len(seq) <= Window
                   /\ file' # [state |-> "ok", data |-> price_history']
                   /\ avg_price' = get_average_price(price_history', key)
            /\ outcome' \in {"NONE", "DIGEST", "DROP", "BOTH"}
            /\ route_idx' = route_idx + 1
            /\ pc' \in {"check", "alerts", "digest"}]_vars

\* a baseline over three observations of which the file holds fewer, the
\* write of one having failed, and a DROP alert decided on it
C17_Witness ==
    /\ save_failures > 0
    /\ avg_price # None
    /\ best_flight # None
    /\ Len(Held(KeyOf(Val(best_flight)))) = MinObservations
    /\ file.state = "ok"
    /\ KeyOf(Val(best_flight)) \in DOMAIN file.data
    /\ Len(file.data[KeyOf(Val(best_flight))]) < MinObservations
    /\ outcome = "BOTH"

\* C18 as stated: whatever price_history.json holds at startup, the store
\* starts as an empty one unless the file is the dump of an earlier run, and
\* no add_price or get_average_price call fails afterwards: each key holds
\* the last 30 of what was hydrated and then added under it.
C18_CallsAfterHydrationNeverFail ==
    /\ exception = None
    /\ \A key \in DOMAIN recorded :
          Held(key) = LastN(recorded[key], Window)

\* the first n texts handed to send_message in this cycle are the texts of
\* the first n DROP alerts of the cycle, in order
DropSendsAre(n) ==
    /\ Len(sent) >= n
    /\ n <= Len(price_drop_alerts)
    /\ \A i \in 1..n :
          sent[i].text = format_price_drop_alert(price_drop_alerts[i])

\* C19: in every cycle each DROP alert that classification produced is
\* handed to send_message exactly once, in the order produced, whatever the
\* earlier sends returned; this happens after classification and before the
\* gate is asked, so before any digest-shaped text, and whether the gate
\* then opens or stays closed.
C19_EachDropAlertSentOnceBeforeGate ==
    /\ pc \in {"start", "check"} => sent = <<>>
    /\ pc = "alerts" =>
         /\ gate = "unset"
         /\ Len(sent) = alert_idx - 1
         /\ DropSendsAre(alert_idx - 1)
    /\ pc = "digest" =>
         /\ gate = "unset"
         /\ Len(sent) = Len(price_drop_alerts)
         /\ DropSendsAre(Len(price_drop_alerts))
    /\ pc = "sleep" =>
         /\ gate \in {"open", "closed"}
         /\ DropSendsAre(Len(price_drop_alerts))
         /\ Len(sent) = Len(price_drop_alerts) + (IF gate = "open" THEN 1 ELSE 0)
         /\ DigestShaped = IF gate = "open" THEN {Len(sent)} ELSE {}

\* a cycle with two DROP alerts whose first send failed and whose gate
\* opened: both were handed to send_message, then the digest
C19_Witness ==
    /\ pc = "sleep"
    /\ gate = "open"
    /\ Len(price_drop_alerts) = 2
    /\ Len(sent) = 3
    /\ ~sent[1].ok
    /\ sent[1].text # sent[2].text
    /\ sent[3].text.kind = "digest"

\* the observations recorded under the key of the retained fare before it
EarlierObservations == Len(Held(KeyOf(Val(best_flight)))) - 1

\* C20: the fare retained for a route is recorded before its baseline is
\* read and the DROP decision is taken on that baseline: the key's sequence
\* ends with the fare's own observation, the baseline is the average of the
\* sequence with it; with exactly 2 earlier observations the baseline is
\* defined, with fewer than 2 there is none and no DROP alert for the fare.
C20_BaselineIncludesOwnPrice ==
    best_flight # None =>
        LET flight == Val(best_flight)
            seq == Held(KeyOf(flight))
        IN  /\ seq # <<>>
            /\ seq[Len(seq)] = [price |-> flight.price, timestamp |-> clock]
            /\ EarlierObservations >= 2 =>
                  avg_price = Some(Frac(PriceTotal(seq, Len(seq)), Len(seq)))
            /\ EarlierObservations = 2 => avg_price # None
            /\ EarlierObservations < 2 =>
                  /\ avg_price = None
                  /\ outcome \in {"NONE", "DIGEST"}
                  /\ \A k \in 1..Len(price_drop_alerts) :
                        price_drop_alerts[k].flight # flight

\* the third fare of a key, lower than the two before it: its baseline is
\* the average of the three, not of the two, and a DROP alert is decided
C20_Witness ==
    /\ best_flight # None
    /\ EarlierObservations = 2
    /\ avg_price # None
    /\ LET seq == Held(KeyOf(Val(best_flight)))
       IN  /\ Val(avg_price) = Frac(PriceTotal(seq, 3), 3)
           /\ Val(avg_price) # Frac(PriceTotal(seq, 2), 2)
           /\ FracLess(Val(avg_price), Frac(PriceTotal(seq, 2), 2))
    /\ outcome = "BOTH"
    /\ price_drop_alerts # <<>>

\* the route of the catalog that flies to a destination
RouteTo(destination) ==
    CHOOSE route \in {routes[r] : r \in 1..Len(routes)} :
        route.destination = destination

\* C21: in a run that starts on an empty store, every price stored under a
\* key is at or below the max_price of the key's route, so every baseline
\* of a DROP alert is; every DROP alert of a cycle is for a fare that has a
\* deal in deals_by_region in the same cycle, and classification never
\* emits DROP alone.  The same holds for every fare of a grid up to the
\* ceiling after any one or two earlier fares of that grid (this part does
\* not depend on the state and is evaluated in the initial state).
C21_DropAlertImpliesDigest ==
    /\ \A r \in 1..Len(routes) :
         \A seq \in HeldFares(routes[r]) : \A k \in 1..Len(seq) :
            seq[k] <= routes[r].max_price
    /\ \A i \in 1..Len(price_drop_alerts) :
         LET a == price_drop_alerts[i]
             route == RouteTo(a.flight.destination)
         IN  /\ a.route = route
             /\ FracGeq(FracInt(route.max_price), a.avg_price)
             /\ FracGeq(drop_pct(a.avg_price, a.flight.price), DropThreshold)
             /\ FracGeq(threshold_savings(route, a.flight.price), DealThreshold)
             /\ Cardinality({j \in 1..Len(deals_by_region[route.region]) :
                    deals_by_region[route.region][j].flight = a.flight}) = 1
    /\ outcome = "BOTH" <=> (best_flight # None /\ AlertsOfBest # {})
    /\ seen \subseteq {"NONE", "DIGEST", "BOTH"}
    /\ (pc = "start" /\ clock = 0) =>
         \A r \in 1..Len(routes) :
            \A earlier \in EarlierFares(routes[r]) :
               \A price \in CeilingPrices(routes[r]) :
                  Classify(routes[r], earlier, price) # "DROP"

\* a DROP alert and a deal for the same fare, on a baseline below the
\* ceiling that includes a fare too dear to be a deal itself
C21_Witness ==
    /\ Len(price_drop_alerts) = 1
    /\ LET a == price_drop_alerts[1]
           seq == Held(KeyOf(a.flight))
       IN  /\ deals_by_region[a.route.region] = <<deal(a.flight, a.route)>>
           /\ FracLess(a.avg_price, FracInt(a.route.max_price))
           /\ \E k \in 1..Len(seq) : ~is_deal(a.route, seq[k].price)

\* C22: a cycle that ends on an Exception before the gate is asked (while
\* routes are searched and classified, or while DROP alerts are sent) leaves
\* last_digest_date, the store and the file as they were when it was
\* raised, and so does the back-off; last_digest_date names a day only if
\* the gate opened on that day; so whenever a later cycle asks the gate at
\* hour >= 9 on a day without an opening, the gate opens.
C22_FailedCycleKeepsTheDigest ==
    /\ [](/\ last_digest_date = None <=> opens = <<>>
          /\ last_digest_date # None => Val(last_digest_date) \in DOMAIN opens
          /\ pc = "backoff" /\ gate = "unset" =>
                (last_digest_date # Some(Today(now))
                    <=> Today(now) \notin DOMAIN opens))
    /\ [][/\ (pc \in {"check", "alerts"} /\ pc' = "backoff") =>
                /\ last_digest_date' = last_digest_date
                /\ opens' = opens
                /\ price_history' = price_history
                /\ file' = file
                /\ gate' = "unset"
          /\ (pc = "backoff" /\ pc' = "check") =>
                /\ last_digest_date' = last_digest_date
                /\ price_history' = price_history
                /\ file' = file
          /\ (pc = "digest" /\ pc' # pc /\ pc' \in LoopStates
                /\ Hour(now) >= DigestHour
                /\ Today(now) \notin DOMAIN opens) =>
                /\ gate' = "open"
                /\ last_digest_date' = Some(Today(now))]_vars

\* the cycle of 10:00 recorded a fare and then failed before the gate; the
\* cycle of 10:30 holds that observation and its gate has opened, for the
\* first time that day
C22_Witness ==
    /\ clock = 1
    /\ \E t \in StartTimes : now = t + BackoffMinutes
    /\ gate = "open"
    /\ opens = Put(<<>>, Today(now), 1)
    /\ \E key \in DOMAIN price_history :
          price_history[key][1].timestamp = 0
    /\ pc \in {"sleep", "backoff"}


====
